---- MODULE Spec2Model ----
(***************************************************************************)
(* Model of the symbolic-function evaluator of src/main.rs: Operation,     *)
(* Value, FunctionTerm and Function, with the demonstration's two-phase    *)
(* construction of a Function.                                             *)
(*                                                                         *)
(* Numbers.  An f64 is modelled by its class and, when finite, by the      *)
(* exact rational it stands for in sign-magnitude form, so that -0.0 and   *)
(* +0.0 are distinct values that compare equal, as in IEEE-754:            *)
(*   [cls |-> "fin", sign, n, d]   sign * n / d, d >= 1, n/d in lowest     *)
(*                                 terms (the f64 is the nearest one)      *)
(*   [cls |-> "inf", sign, ...]    +Infinity / -Infinity                   *)
(*   [cls |-> "nan", ...]          NaN                                     *)
(*   [cls |-> "irr", ...]          a positive finite result of powf with a *)
(*                                 non-integer exponent; its magnitude is  *)
(*                                 not represented and no operator accepts *)
(*                                 it as an operand (the CASEs below have  *)
(*                                 no arm for it)                          *)
(***************************************************************************)
EXTENDS Integers, Sequences, FiniteSets, TLC

VARIABLES arguments, term, pc, last, evals

vars == <<arguments, term, pc, last, evals>>

----------------------------------------------------------------------------
(* f64 values                                                              *)

RECURSIVE GCD(_, _)
GCD(a, b) == IF b = 0 THEN a ELSE GCD(b, a % b)

RECURSIVE IntPow(_, _)
IntPow(b, e) == IF e = 0 THEN 1 ELSE b * IntPow(b, e - 1)

Fin(s, n, d) == [cls |-> "fin", sign |-> s, n |-> n \div GCD(n, d), d |-> d \div GCD(n, d)]
Inf(s)       == [cls |-> "inf", sign |-> s, n |-> 1, d |-> 0]
NaN          == [cls |-> "nan", sign |-> 1, n |-> 0, d |-> 0]
Irr          == [cls |-> "irr", sign |-> 1, n |-> 0, d |-> 0]

\* an integer as f64 (`x as f64`, exact for the small integers used here)
F64(i) == IF i < 0 THEN Fin(-1, -i, 1) ELSE Fin(1, i, 1)
NegZero == Fin(-1, 0, 1)

\* f64 `==`: +0.0 and -0.0 are equal, NaN equals nothing
IsZero(a)  == a.cls = "fin" /\ a.n = 0
F64Eq(a, b) ==
    /\ a.cls \notin {"nan", "irr"} /\ b.cls \notin {"nan", "irr"}
    /\ \/ IsZero(a) /\ IsZero(b)
       \/ a = b

Neg(a) == IF a.cls = "nan" THEN a ELSE [a EXCEPT !.sign = -a.sign]

IsInt(a) == a.cls = "fin" /\ a.d = 1
IsOddInt(a) == IsInt(a) /\ a.n % 2 = 1

\* f64 `+`
F64Add(l, r) ==
    CASE l.cls = "nan" \/ r.cls = "nan" -> NaN
      [] l.cls = "inf" /\ r.cls = "inf" -> IF l.sign = r.sign THEN l ELSE NaN
      [] l.cls = "inf" /\ r.cls = "fin" -> l
      [] l.cls = "fin" /\ r.cls = "inf" -> r
      [] l.cls = "fin" /\ r.cls = "fin" ->
            LET num == l.sign * l.n * r.d + r.sign * r.n * l.d
                den == l.d * r.d
            IN  IF num = 0
                THEN Fin(IF l.sign = -1 /\ r.sign = -1 THEN -1 ELSE 1, 0, 1)
                ELSE IF num < 0 THEN Fin(-1, -num, den) ELSE Fin(1, num, den)

\* f64 `-`
F64Sub(l, r) == F64Add(l, Neg(r))

\* f64 `*`
F64Mul(l, r) ==
    CASE l.cls = "nan" \/ r.cls = "nan" -> NaN
      [] l.cls = "inf" /\ r.cls = "inf" -> Inf(l.sign * r.sign)
      [] l.cls = "inf" /\ r.cls = "fin" -> IF r.n = 0 THEN NaN ELSE Inf(l.sign * r.sign)
      [] l.cls = "fin" /\ r.cls = "inf" -> IF l.n = 0 THEN NaN ELSE Inf(l.sign * r.sign)
      [] l.cls = "fin" /\ r.cls = "fin" -> Fin(l.sign * r.sign, l.n * r.n, l.d * r.d)

\* f64 `/`
F64Div(l, r) ==
    CASE l.cls = "nan" \/ r.cls = "nan" -> NaN
      [] l.cls = "inf" /\ r.cls = "inf" -> NaN
      [] l.cls = "inf" /\ r.cls = "fin" -> Inf(l.sign * r.sign)
      [] l.cls = "fin" /\ r.cls = "inf" -> Fin(l.sign * r.sign, 0, 1)
      [] l.cls = "fin" /\ r.cls = "fin" ->
            IF r.n = 0
            THEN IF l.n = 0 THEN NaN ELSE Inf(l.sign * r.sign)
            ELSE Fin(l.sign * r.sign, l.n * r.d, l.d * r.n)

\* a power computed as a product
PowfAsProduct(x, y) == F64Mul(x, y)

\* f64::powf (the C library's pow)
Powf(x, y) ==
    CASE IsZero(y) -> F64(1)
      [] ~IsZero(y) /\ x = F64(1) -> F64(1)
      [] ~IsZero(y) /\ x # F64(1) /\ (x.cls = "nan" \/ y.cls = "nan") -> NaN
      [] x.cls \in {"fin", "inf"} /\ x # F64(1) /\ y.cls = "inf" ->
            IF x = F64(-1) THEN F64(1)
            ELSE IF x.cls = "fin" /\ x.n < x.d
                 THEN (IF y.sign = 1 THEN F64(0) ELSE Inf(1))
                 ELSE (IF y.sign = 1 THEN Inf(1) ELSE F64(0))
      [] IsZero(x) /\ y.cls = "fin" /\ ~IsZero(y) ->
            IF y.sign = -1
            THEN Inf(IF IsOddInt(y) THEN x.sign ELSE 1)
            ELSE Fin(IF IsOddInt(y) THEN x.sign ELSE 1, 0, 1)
      [] x.cls = "inf" /\ y.cls = "fin" /\ ~IsZero(y) ->
            IF y.sign = -1
            THEN Fin(IF IsOddInt(y) THEN x.sign ELSE 1, 0, 1)
            ELSE Inf(IF IsOddInt(y) THEN x.sign ELSE 1)
      [] x.cls = "fin" /\ ~IsZero(x) /\ x # F64(1) /\ y.cls = "fin" /\ ~IsZero(y) ->
            IF IsInt(y)
            THEN LET s == IF IsOddInt(y) THEN x.sign ELSE 1
                     a == IntPow(x.n, y.n)
                     b == IntPow(x.d, y.n)
                 IN  IF y.sign = 1 THEN Fin(s, a, b) ELSE Fin(s, b, a)
            ELSE IF x.sign = -1 THEN NaN ELSE Irr

----------------------------------------------------------------------------
(* anyhow::Result<f64>                                                     *)
(* status "Ok": val is the value.  status "Err": error is the MyError at   *)
(* the root of the anyhow::Error and context the chain of .context()       *)
(* messages, outermost first.  status "Panic": the call did not return     *)
(* (HashMap's Index panics on a missing key, unwrap panics on Err).        *)
(* trace lists, in the order they happened, the leaves read and the        *)
(* operations applied, each with the position of its node in the tree.     *)

NoValue == [cls |-> "none"]
NoError == [kind |-> "none"]
DivisionByZero == [kind |-> "DivisionByZero"]
NoSuchVariable(name) == [kind |-> "NoSuchVariable", variable |-> name]

Ok(v, tr)  == [status |-> "Ok", val |-> v, error |-> NoError, context |-> <<>>, trace |-> tr]
Err(e, tr) == [status |-> "Err", val |-> NoValue, error |-> e, context |-> <<>>, trace |-> tr]
Panic(tr)  == [status |-> "Panic", val |-> NoValue, error |-> NoError, context |-> <<>>, trace |-> tr]

\* anyhow::Context::context: wraps an Err, leaves an Ok untouched
Context(r, msg) == IF r.status = "Err" THEN [r EXCEPT !.context = <<msg>> \o @] ELSE r

LeftMsg  == "Failed to solve the left hand side."
RightMsg == "Failed to solve the right hand side."

Event(what, path) == [ev |-> what, at |-> path]

----------------------------------------------------------------------------
(* Operation                                                               *)

Operations == {"_Plus", "_Minus", "_Multiply", "_Divide", "Pow"}

\* Operation::apply with the zero test on the wrong operand
applyTestsLeft(operation, left, right) ==
    CASE operation = "_Plus"     -> Ok(F64Add(left, right), <<>>)
      [] operation = "_Minus"    -> Ok(F64Sub(left, right), <<>>)
      [] operation = "_Multiply" -> Ok(F64Mul(left, right), <<>>)
      [] operation = "_Divide"   ->
            IF F64Eq(left, F64(0))
            THEN Err(DivisionByZero, <<>>)
            ELSE Ok(F64Div(left, right), <<>>)
      [] operation = "Pow"       -> Ok(Powf(left, right), <<>>)

\* Operation::apply; the result carries no trace of its own
apply(operation, left, right) ==
    CASE operation = "_Plus"     -> Ok(F64Add(left, right), <<>>)
      [] operation = "_Minus"    -> Ok(F64Sub(left, right), <<>>)
      [] operation = "_Multiply" -> Ok(F64Mul(left, right), <<>>)
      [] operation = "_Divide"   ->
            IF F64Eq(right, F64(0))
            THEN Err(DivisionByZero, <<>>)
            ELSE Ok(F64Div(left, right), <<>>)
      [] operation = "Pow"       -> Ok(Powf(left, right), <<>>)

\* the tail of a Calculation node: apply the operation to two values
ApplyAt(operation, l, r, path) ==
    LET a == apply(operation, l.val, r.val)
    IN  [a EXCEPT !.trace = l.trace \o r.trace \o <<Event("apply", path)>>]

----------------------------------------------------------------------------
(* Value                                                                   *)

Literal(x) == [tag |-> "Literal", x |-> x]
ValueCalculation(l, r, o) == [tag |-> "_Calculation", left |-> l, right |-> r, operation |-> o]

RECURSIVE get(_, _)
get(v, path) ==
    IF v.tag = "Literal"
    THEN Ok(v.x, <<Event("literal", path)>>)
    ELSE LET l == Context(get(v.left, Append(path, "left")), LeftMsg)
         IN  IF l.status # "Ok" THEN l
             ELSE LET r0 == Context(get(v.right, Append(path, "right")), RightMsg)
                      r  == [r0 EXCEPT !.trace = l.trace \o @]
                  IN  IF r.status # "Ok" THEN r
                      ELSE ApplyAt(v.operation, l, r0, path)

----------------------------------------------------------------------------
(* FunctionTerm                                                            *)

Variable(name) == [tag |-> "Variable", name |-> name]
Value(v) == [tag |-> "Value", value |-> v]
Calculation(l, r, o) == [tag |-> "Calculation", left |-> l, right |-> r, operation |-> o]

\* impl From<u32> for Box<FunctionTerm>
FromU32(value) == Value(Literal(F64(value)))

\* HashMap's Index with a default instead of the panic
IndexOrDefault(args, name, path) ==
    IF name \in DOMAIN args
    THEN Ok(args[name], <<Event("variable", path)>>)
    ELSE Ok(F64(0), <<Event("variable", path)>>)

\* args[&x]: HashMap's Index panics when the key is missing
Index(args, name, path) ==
    IF name \in DOMAIN args
    THEN Ok(args[name], <<Event("variable", path)>>)
    ELSE Panic(<<Event("variable", path)>>)

\* FunctionTerm::solve evaluating the right child first
RECURSIVE solveRightFirst(_, _, _)
solveRightFirst(t, args, path) ==
    CASE t.tag = "Value" -> get(t.value, path)
      [] t.tag = "Variable" -> Index(args, t.name, path)
      [] t.tag = "Calculation" ->
            LET r == Context(solveRightFirst(t.right, args, Append(path, "right")), RightMsg)
            IN  IF r.status # "Ok" THEN r
                ELSE LET l0 == Context(solveRightFirst(t.left, args, Append(path, "left")), LeftMsg)
                         l  == [l0 EXCEPT !.trace = r.trace \o @]
                     IN  IF l.status # "Ok" THEN l
                         ELSE [apply(t.operation, l0.val, r.val)
                                 EXCEPT !.trace = r.trace \o l0.trace \o <<Event("apply", path)>>]

RECURSIVE solve(_, _, _)
solve(t, args, path) ==
    CASE t.tag = "Value" -> get(t.value, path)
      [] t.tag = "Variable" -> Index(args, t.name, path)
      [] t.tag = "Calculation" ->
            LET l == Context(solve(t.left, args, Append(path, "left")), LeftMsg)
            IN  IF l.status # "Ok" THEN l
                ELSE LET r0 == Context(solve(t.right, args, Append(path, "right")), RightMsg)
                         r  == [r0 EXCEPT !.trace = l.trace \o @]
                     IN  IF r.status # "Ok" THEN r
                         ELSE ApplyAt(t.operation, l, r0, path)

----------------------------------------------------------------------------
(* Function                                                                *)

Min(a, b) == IF a <= b THEN a ELSE b

Contains(seq, x) == \E i \in 1..Len(seq) : seq[i] = x

\* HashMap::insert: a later pair replaces an earlier one with the same key
Insert(m, k, v) == [c \in DOMAIN m \cup {k} |-> IF c = k THEN v ELSE m[c]]

\* Iterator::zip losing the last pair
ZipOffByOne(a, b) == [i \in 1..(Min(Len(a), Len(b)) - 1) |-> <<a[i], b[i]>>]

\* Iterator::zip: stops at the end of the shorter sequence
Zip(a, b) == [i \in 1..Min(Len(a), Len(b)) |-> <<a[i], b[i]>>]

\* Iterator::collect into a HashMap: inserts the pairs in order
RECURSIVE Collect(_)
Collect(pairs) ==
    IF pairs = <<>> THEN <<>>
    ELSE LET n == Len(pairs)
         IN  Insert(Collect(SubSeq(pairs, 1, n - 1)), pairs[n][1], pairs[n][2])

\* the f! macro: the given parameters and the placeholder body
NewFunction(params) == [arguments |-> params, term |-> Value(Literal(F64(0)))]

\* Function::solve_for
solve_for(self, args) == solve(self.term, args, <<>>)

\* Function::solve_args_in_order
solve_args_in_order(self, in_order) == solve_for(self, Collect(Zip(self.arguments, in_order)))

\* Function::variable with the membership test inverted
variableInverted(self, name) ==
    IF Contains(self.arguments, name)
    THEN Err(NoSuchVariable(name), <<>>)
    ELSE Ok(Variable(name), <<>>)

\* Function::variable returning the first parameter instead of the named one
variableFirstParameter(self, name) ==
    IF ~Contains(self.arguments, name)
    THEN Err(NoSuchVariable(name), <<>>)
    ELSE Ok(Variable(self.arguments[1]), <<>>)

\* Function::variable without the membership test
variableUnchecked(self, name) == Ok(Variable(name), <<>>)

\* Function::variable: Ok carries the term in val
variable(self, name) ==
    IF ~Contains(self.arguments, name)
    THEN Err(NoSuchVariable(name), <<>>)
    ELSE Ok(Variable(name), <<>>)

\* Result::unwrap applied to every variable(name) call of a body expression
\* written like main's: the expression's Variable leaves are the unwrapped
\* results of self.variable(name), its other leaves are closed values.
\* Fields are evaluated in the order written, left first; the first Err
\* makes unwrap panic and nothing is assembled.
RECURSIVE Assemble(_, _)
Assemble(self, shape) ==
    CASE shape.tag = "Value" -> Ok(shape, <<>>)
      [] shape.tag = "Variable" ->
            LET v == variable(self, shape.name)
            IN  IF v.status = "Ok" THEN v ELSE Panic(<<>>)
      [] shape.tag = "Calculation" ->
            LET l == Assemble(self, shape.left)
            IN  IF l.status # "Ok" THEN l
                ELSE LET r == Assemble(self, shape.right)
                     IN  IF r.status # "Ok" THEN r
                         ELSE Ok(Calculation(l.val, r.val, shape.operation), <<>>)

----------------------------------------------------------------------------
(* Bounds and input sets                                                   *)

MaxArgs == 2    \* longest parameter list
MaxVals == 2    \* longest positional value list
MaxEvals == 2   \* evaluations followed per body

Names == {"x", "y"}
Vals  == {F64(-2), F64(0), F64(3)}

SeqsUpTo(S, n) == UNION {[1..k -> S] : k \in 0..n}
Bindings == UNION {[D -> Vals] : D \in SUBSET Names}

\* body expressions: a leaf, or one operation over two leaves
Leaves == {Variable(c) : c \in Names} \cup {FromU32(2)}
Shapes == Leaves \cup {Calculation(l, r, o) : l \in Leaves, r \in Leaves, o \in Operations}

----------------------------------------------------------------------------
(* The Function under construction and use                                 *)
(* pc is main's position: "constructed" after f!(..), "installed" after    *)
(* the assignment to f.term, "panicked" once a call has panicked.          *)
(* last is the latest call with its input and outcome; evals counts the    *)
(* evaluations made of the current body.                                   *)

Self == [arguments |-> arguments, term |-> term]

NoCall == [op |-> "none"]

Init ==
    \E params \in SeqsUpTo(Names, MaxArgs) :
        /\ arguments = NewFunction(params).arguments
        /\ term = NewFunction(params).term
        /\ pc = "constructed"
        /\ last = NoCall
        /\ evals = 0

\* f.variable(name), result kept
CallVariable(name) ==
    /\ pc # "panicked"
    /\ last' = [op |-> "variable", input |-> name, res |-> variable(Self, name)]
    /\ UNCHANGED <<arguments, term, pc, evals>>

\* the assignment that also empties the parameter list
InstallClearingArguments(shape) ==
    /\ pc = "constructed"
    /\ LET a == Assemble(Self, shape)
       IN  /\ last' = [op |-> "install", input |-> shape, res |-> a]
           /\ IF a.status = "Ok"
              THEN term' = a.val /\ pc' = "installed"
              ELSE term' = term /\ pc' = "panicked"
    /\ evals' = 0
    /\ arguments' = <<>>

\* f.term = <body built with f.variable(..).unwrap()>
Install(shape) ==
    /\ pc = "constructed"
    /\ LET a == Assemble(Self, shape)
       IN  /\ last' = [op |-> "install", input |-> shape, res |-> a]
           /\ IF a.status = "Ok"
              THEN term' = a.val /\ pc' = "installed"
              ELSE term' = term /\ pc' = "panicked"
    /\ evals' = 0
    /\ UNCHANGED arguments

\* what an evaluation leaves behind: the call, the binding mapping it
\* evaluated under and its outcome
Evaluated(op, input, args, r) ==
    /\ evals < MaxEvals
    /\ last' = [op |-> op, input |-> input, bound |-> args, res |-> r]
    /\ evals' = evals + 1
    /\ pc' = IF r.status = "Panic" THEN "panicked" ELSE pc

\* f.solve_for(&args) that keeps its result as the new body
SolveForCaching(args) ==
    /\ pc # "panicked"
    /\ LET r == solve_for(Self, args)
       IN  /\ Evaluated("solve_for", args, args, r)
           /\ term' = IF r.status = "Ok" THEN Value(Literal(r.val)) ELSE term
    /\ UNCHANGED arguments

\* f.solve_for(&args)
SolveFor(args) ==
    /\ pc # "panicked"
    /\ Evaluated("solve_for", args, args, solve_for(Self, args))
    /\ UNCHANGED <<arguments, term>>

\* f.solve_args_in_order(in_order)
SolveArgsInOrder(in_order) ==
    /\ pc # "panicked"
    /\ Evaluated("solve_args_in_order", in_order, Collect(Zip(arguments, in_order)),
                 solve_args_in_order(Self, in_order))
    /\ UNCHANGED <<arguments, term>>

Next ==
    \/ \E name \in Names : CallVariable(name)
    \/ \E shape \in Shapes : Install(shape)
    \/ \E args \in Bindings : SolveFor(args)
    \/ \E in_order \in SeqsUpTo(Vals, MaxVals) : SolveArgsInOrder(in_order)

Spec == Init /\ [][Next]_vars

----------------------------------------------------------------------------
(* Operation::apply on its own                                             *)

Numbers == Vals \cup {NegZero, F64(1), Fin(1, 1, 2), Inf(1), Inf(-1), NaN}

InitApply ==
    /\ arguments = <<>>
    /\ term = NewFunction(<<>>).term
    /\ pc = "constructed"
    /\ last = NoCall
    /\ evals = 0

\* operation.apply(left, right), result kept
Apply(operation, left, right) ==
    /\ last' = [op |-> "apply", input |-> <<operation, left, right>>,
                res |-> apply(operation, left, right)]
    /\ UNCHANGED <<arguments, term, pc, evals>>

NextApply == \E operation \in Operations, left \in Numbers, right \in Numbers :
                Apply(operation, left, right)

SpecApply == InitApply /\ [][NextApply]_vars

----------------------------------------------------------------------------
(* FunctionTerm::solve and Value::get on nested trees                      *)
(* The trees nest two operations deep at most, with inner operations that  *)
(* keep every intermediate value a small rational.                         *)

InnerOperations == {"_Minus", "_Divide"}

ValueLeaves == {Literal(F64(k)) : k \in {0, 2}}
ValueCalcs  == {ValueCalculation(l, r, o) : l \in ValueLeaves, r \in ValueLeaves, o \in InnerOperations}
ValueNests  ==
    {ValueCalculation(l, r, o) : l \in ValueCalcs, r \in ValueLeaves, o \in Operations}
    \cup {ValueCalculation(l, r, o) : l \in ValueLeaves, r \in ValueCalcs, o \in Operations}

InnerTerms == {Calculation(l, r, o) : l \in Leaves, r \in Leaves, o \in InnerOperations}
DeepTerms ==
    {Value(v) : v \in ValueCalcs \cup ValueNests}
    \cup {Calculation(l, r, o) : l \in Leaves \cup {Value(v) : v \in ValueCalcs},
                                 r \in Leaves \cup {Value(v) : v \in ValueCalcs},
                                 o \in Operations}
    \cup {Calculation(l, r, o) : l \in InnerTerms, r \in Leaves, o \in Operations}
    \cup {Calculation(l, r, o) : l \in Leaves, r \in InnerTerms, o \in Operations}

InitSolve ==
    /\ arguments = <<"x", "y">>
    /\ term \in DeepTerms
    /\ pc = "installed"
    /\ last = NoCall
    /\ evals = 0

\* term.solve(&args), result kept
Solve(args) ==
    /\ last' = [op |-> "solve", input |-> args, res |-> solve(term, args, <<>>)]
    /\ UNCHANGED <<arguments, term, pc, evals>>

NextSolve == \E args \in Bindings : Solve(args)

SpecSolve == InitSolve /\ [][NextSolve]_vars

----------------------------------------------------------------------------
(* Properties                                                              *)

ArgSet == {arguments[i] : i \in 1..Len(arguments)}

RECURSIVE VarsOf(_)
VarsOf(t) ==
    CASE t.tag = "Variable"    -> {t.name}
      [] t.tag = "Value"       -> {}
      [] t.tag = "Calculation" -> VarsOf(t.left) \cup VarsOf(t.right)

IsEval(call) == call.op \in {"solve_for", "solve_args_in_order"}

Placeholder == Value(Literal(F64(0)))

\* C1: variable(name) with a name that is not among the arguments fails with
\* NoSuchVariable carrying that name and returns no term.
C1_UndeclaredNameRejected ==
    (last.op = "variable" /\ last.input \notin ArgSet) =>
        /\ last.res.status = "Err"
        /\ last.res.error = NoSuchVariable(last.input)
        /\ last.res.val = NoValue

C1_Witness ==
    /\ last.op = "variable"
    /\ last.input \notin ArgSet
    /\ arguments # <<>>

\* C2: variable(p) with p among the arguments succeeds with Variable(p), and
\* solving that bare term under any binding mapping that contains p gives
\* exactly the value bound to p, whatever else the mapping holds.
C2_DeclaredNameResolves ==
    (last.op = "variable" /\ last.input \in ArgSet) =>
        /\ last.res.status = "Ok"
        /\ last.res.val = Variable(last.input)
        /\ \A b \in Bindings :
              last.input \in DOMAIN b =>
                 /\ solve(last.res.val, b, <<>>).status = "Ok"
                 /\ solve(last.res.val, b, <<>>).val = b[last.input]

C2_Witness ==
    /\ last.op = "variable"
    /\ last.res.status = "Ok"
    /\ Len(arguments) = 2
    /\ arguments[1] # last.input

\* the quotient of two f64 values, as a relation between q, l and r
IsQuotient(q, l, r) ==
    CASE l.cls = "nan" \/ r.cls = "nan" -> q = NaN
      [] l.cls = "inf" /\ r.cls = "inf" -> q = NaN
      [] l.cls = "inf" /\ r.cls = "fin" -> q.cls = "inf" /\ q.sign = l.sign * r.sign
      [] l.cls = "fin" /\ r.cls = "inf" -> IsZero(q) /\ q.sign = l.sign * r.sign
      [] l.cls = "fin" /\ r.cls = "fin" ->
            /\ q.cls = "fin"
            /\ q.sign = l.sign * r.sign
            /\ q.n * r.n * l.d = l.n * q.d * r.d

\* C3: apply fails exactly when the operation is Divide and right equals zero
\* (as f64 compares: +0.0 or -0.0), the failure is DivisionByZero whatever
\* left is, and every other call returns a number, left / right for Divide.
C3_ApplyFailsOnlyOnZeroDivisor ==
    last.op = "apply" =>
        LET operation == last.input[1]
            left  == last.input[2]
            right == last.input[3]
        IN  /\ (last.res.status # "Ok") <=> (operation = "_Divide" /\ right \in {F64(0), NegZero})
            /\ last.res.status # "Ok" =>
                  /\ last.res.status = "Err"
                  /\ last.res.error = DivisionByZero
                  /\ last.res.val = NoValue
            /\ last.res.status = "Ok" => last.res.val.cls \in {"fin", "inf", "nan", "irr"}
            /\ (last.res.status = "Ok" /\ operation = "_Divide") =>
                  IsQuotient(last.res.val, left, right)

C3_Witness ==
    /\ last.op = "apply"
    /\ last.input[1] = "_Divide"
    /\ last.input[2] = NaN
    /\ last.input[3] = NegZero
    /\ last.res.status = "Err"

XSquared == Calculation(Variable("x"), FromU32(2), "Pow")

\* C4: for f(x) = x^2 built as in main (parameters <<x>>, the variable from
\* variable("x"), the exponent from 2.into()), solve_args_in_order(<<v>>)
\* succeeds with v * v for every integer v tried, negative ones included.
C4_SquareEndToEnd ==
    (/\ pc = "installed" /\ arguments = <<"x">> /\ term = XSquared
     /\ last.op = "solve_args_in_order" /\ Len(last.input) = 1) =>
        /\ last.res.status = "Ok"
        /\ last.res.val = Fin(1, last.input[1].n * last.input[1].n, 1)

C4_Witness ==
    /\ pc = "installed" /\ arguments = <<"x">> /\ term = XSquared
    /\ last.op = "solve_args_in_order"
    /\ last.input = <<F64(-2)>>
    /\ last.res.val = F64(4)

\* C5: solve_args_in_order(values) evaluates under the mapping whose keys are
\* arguments[i] for exactly the i up to min(len(arguments), len(values)),
\* each bound to values[i] (where a name is repeated in that prefix, to the
\* value at its last position), and returns what solve_for returns under it;
\* values beyond len(arguments) are dropped without error, so the outcome
\* equals that of the call with values cut to len(arguments).
C5_PositionalBindingTruncates ==
    last.op = "solve_args_in_order" =>
        LET values == last.input
            n == Min(Len(arguments), Len(values))
        IN  /\ DOMAIN last.bound = {arguments[i] : i \in 1..n}
            /\ \A i \in 1..n :
                  (\A j \in (i + 1)..n : arguments[j] # arguments[i]) =>
                      last.bound[arguments[i]] = values[i]
            /\ last.res = solve_for(Self, last.bound)
            /\ Len(values) > Len(arguments) =>
                  last.res = solve_args_in_order(Self, SubSeq(values, 1, Len(arguments)))

C5_Witness ==
    /\ last.op = "solve_args_in_order"
    /\ Len(arguments) = 1
    /\ Len(last.input) = 2
    /\ VarsOf(term) # {}
    /\ last.res.status = "Ok"
    /\ last.res.val # F64(0)

\* C6: when solve_args_in_order gets fewer values than there are arguments,
\* only the names of the overlapping prefix are bound, and if the body refers
\* to a trailing argument left unbound the evaluation does not return a
\* number: no default or garbage value is used for it.
C6_UnboundTrailingArgumentFails ==
    (last.op = "solve_args_in_order" /\ Len(last.input) < Len(arguments)) =>
        /\ DOMAIN last.bound = {arguments[i] : i \in 1..Len(last.input)}
        /\ (\E i \in (Len(last.input) + 1)..Len(arguments) :
               arguments[i] \notin DOMAIN last.bound /\ arguments[i] \in VarsOf(term)) =>
              /\ last.res.status # "Ok"
              /\ last.res.val = NoValue

C6_Witness ==
    /\ last.op = "solve_args_in_order"
    /\ Len(last.input) = 1
    /\ Len(arguments) = 2
    /\ arguments[2] \notin DOMAIN last.bound
    /\ VarsOf(term) = {arguments[1], arguments[2]}
    /\ last.res.status = "Panic"

\* C7: in every state of the Function, after construction and after the body
\* is installed, every Variable inside term names one of the arguments; a
\* body expression asking variable() for any other name is never installed.
C7_BodyVariablesAreDeclared ==
    /\ VarsOf(term) \subseteq ArgSet
    /\ (last.op = "install" /\ ~(VarsOf(last.input) \subseteq ArgSet)) =>
          (pc = "panicked" /\ term = Placeholder)

C7_Witness ==
    /\ pc = "installed"
    /\ Len(arguments) = 1
    /\ VarsOf(term) = ArgSet

\* positions in a tree: the node at a path, and the number of nodes
RECURSIVE NodeAt(_, _)
NodeAt(t, path) ==
    IF t.tag = "Value" THEN NodeAt(t.value, path)
    ELSE IF path = <<>> THEN t
    ELSE NodeAt(IF Head(path) = "left" THEN t.left ELSE t.right, Tail(path))

RECURSIVE Size(_)
Size(t) ==
    CASE t.tag = "Value" -> Size(t.value)
      [] t.tag \in {"Variable", "Literal"} -> 1
      [] t.tag \in {"Calculation", "_Calculation"} -> 1 + Size(t.left) + Size(t.right)

IsPrefix(p, q) == Len(p) <= Len(q) /\ SubSeq(q, 1, Len(p)) = p

Messages(path) == [i \in 1..Len(path) |-> IF path[i] = "left" THEN LeftMsg ELSE RightMsg]

\* C8: a Calculation node (of a FunctionTerm or of a Value) evaluates its
\* left child completely before its right child and applies its operation
\* after both; an evaluation that succeeds has visited every node once; one
\* that fails stops at the first failing node in that order: nothing to the
\* right of it is evaluated, no operation above it is applied, and an Err keeps
\* the kind DivisionByZero of the failing Divide, annotated with the side
\* taken at each node on the way down to it.
C8_LeftBeforeRightFirstFailure ==
    last.op = "solve" =>
        LET tr == last.res.trace
            n  == Len(tr)
        IN  /\ \A i \in 1..n : \A j \in (i + 1)..n :
                  \* nothing under a left child comes after something under
                  \* the right child of the same node
                  /\ \A k \in 1..Len(tr[i].at) :
                        tr[i].at[k] = "right" =>
                           ~IsPrefix(Append(SubSeq(tr[i].at, 1, k - 1), "left"), tr[j].at)
                  \* an operation is applied after everything below its node
                  /\ tr[i].ev = "apply" => ~IsPrefix(tr[i].at, tr[j].at)
            /\ last.res.status = "Ok" => n = Size(term)
            /\ last.res.status # "Ok" =>
                  /\ n >= 1
                  /\ \A i \in 1..(n - 1) :
                        tr[i].ev = "apply" => ~IsPrefix(tr[i].at, tr[n].at)
                  /\ \A k \in 1..Len(tr[n].at) :
                        tr[n].at[k] = "left" =>
                           \A i \in 1..n :
                              ~IsPrefix(Append(SubSeq(tr[n].at, 1, k - 1), "right"), tr[i].at)
            /\ last.res.status = "Err" =>
                  /\ last.res.error = DivisionByZero
                  /\ tr[n].ev = "apply"
                  /\ NodeAt(term, tr[n].at).operation = "_Divide"
                  /\ last.res.context = Messages(tr[n].at)
            /\ last.res.status = "Panic" =>
                  /\ tr[n].ev = "variable"
                  /\ NodeAt(term, tr[n].at).name \notin DOMAIN last.input

\* the left child fails with DivisionByZero while the right child, an unbound
\* variable, would have panicked had it been evaluated
C8_Witness ==
    /\ last.op = "solve"
    /\ term.tag = "Calculation"
    /\ term.left.tag = "Calculation"
    /\ term.right.tag = "Variable"
    /\ term.right.name \notin DOMAIN last.input
    /\ last.res.status = "Err"
    /\ last.res.context = <<LeftMsg>>

\* C9: solve_for and solve_args_in_order leave arguments and term as they
\* were, so the outcome just obtained is the outcome of evaluating again in
\* the state reached, and an evaluation under the same binding mapping as the
\* one before it returns the same value or the same failure.
C9_EvaluationKeepsNoState ==
    /\ [](IsEval(last) => last.res = solve_for(Self, last.bound))
    /\ [][(IsEval(last') /\ evals' = evals + 1) =>
             /\ arguments' = arguments
             /\ term' = term
             /\ (IsEval(last) /\ last.bound = last'.bound) => last'.res = last.res]_vars

C9_Witness ==
    /\ IsEval(last)
    /\ pc = "installed"
    /\ evals = MaxEvals
    /\ VarsOf(term) # {}
    /\ last.res.status = "Ok"

\* C10: the constructor yields the given parameters with the placeholder body
\* Value(Literal(0)); until a body is installed every evaluation returns 0
\* without error whatever the binding mapping; installing the body changes
\* term only, and every evaluation after it is that of the installed body.
C10_TwoPhaseConstruction ==
    /\ [](pc = "constructed" =>
             /\ term = Placeholder
             /\ IsEval(last) => (last.res.status = "Ok" /\ last.res.val = F64(0)))
    /\ [][(pc = "constructed" /\ pc' = "installed") =>
             /\ arguments' = arguments
             /\ last'.op = "install"
             /\ term' = last'.res.val]_vars
    /\ [][pc = "installed" =>
             /\ arguments' = arguments
             /\ term' = term
             /\ (IsEval(last') /\ evals' = evals + 1) =>
                   last'.res = solve(term, last'.bound, <<>>)]_vars

C10_Witness ==
    /\ pc = "installed"
    /\ arguments # <<>>
    /\ term # Placeholder
    /\ last.op = "solve_for"
    /\ last.res.status = "Ok"
    /\ last.res.val = F64(9)

====
